---- MODULE Spec2Model ----
(***************************************************************************)
(* NanoHash Invoice (src/script.js): the invoice session as a state        *)
(* machine.  The state is the script's globals (items, invoiceNumber,      *)
(* invoiceHistory, window.currentInvoiceHash/Timestamp), the form fields   *)
(* it reads, localStorage, the hash promises in flight and the clock.      *)
(*                                                                         *)
(* JavaScript numbers are modelled in fixed point: a number x is the       *)
(* integer x * Scale.  Strings typed into the form are sequences of        *)
(* one-character strings, so that trim and parseFloat are computed.        *)
(***************************************************************************)
EXTENDS Integers, Sequences, FiniteSets, TLC

(* ------------------------------ bounds -------------------------------- *)

\* most events (user actions, promise resolutions, reloads, clock ticks) in a
\* behaviour
MaxOps == 5

(* ------------------------- program constants -------------------------- *)

\* var invoiceNumber = 1001
InitialInvoiceNumber == 1001
\* saveToHistory keeps the first 50 records
MaxHistory == 50
\* default of getTaxRate
DefaultTaxRate == 13

\* fixed-point unit of the number model: x is held as x * Scale
Scale == 10 * 10 * 10

\* the value of a variable or property that was never set
Undefined == [undefined |-> TRUE]

Min(a, b) == IF a < b THEN a ELSE b

(* ------------------------------ strings ------------------------------- *)

DigitChars == <<"0", "1", "2", "3", "4", "5", "6", "7", "8", "9">>

IsDigit(c) == \E d \in 1..10 : DigitChars[d] = c

DigitValue(c) == (CHOOSE d \in 1..10 : DigitChars[d] = c) - 1

IsSpace(c) == c = " "

\* String.prototype.trim
RECURSIVE TrimLeft(_)
TrimLeft(s) ==
    IF s # <<>> /\ IsSpace(Head(s)) THEN TrimLeft(Tail(s)) ELSE s

RECURSIVE TrimRight(_)
TrimRight(s) ==
    IF s # <<>> /\ IsSpace(s[Len(s)]) THEN TrimRight(SubSeq(s, 1, Len(s) - 1)) ELSE s

Trim(s) == TrimRight(TrimLeft(s))

\* the longest prefix of s made of decimal digits
RECURSIVE DigitPrefix(_)
DigitPrefix(s) ==
    IF s # <<>> /\ IsDigit(Head(s)) THEN <<Head(s)>> \o DigitPrefix(Tail(s)) ELSE <<>>

\* the natural number written by a sequence of digits
RECURSIVE DigitsValue(_)
DigitsValue(ds) ==
    IF ds = <<>> THEN 0
    ELSE 10 * DigitsValue(SubSeq(ds, 1, Len(ds) - 1)) + DigitValue(ds[Len(ds)])

NaN == [nan |-> TRUE, val |-> 0]

Num(v) == [nan |-> FALSE, val |-> v]

\* s without a leading minus sign
Unsigned(s) == IF s # <<>> /\ Head(s) = "-" THEN Tail(s) ELSE s

\* whether s starts with a minus sign
IsNegative(s) == s # <<>> /\ Head(s) = "-"

\* the digits after a decimal point at the head of rest
FractionDigits(rest) ==
    IF rest # <<>> /\ Head(rest) = "." THEN DigitPrefix(Tail(rest)) ELSE <<>>

\* the value, in fixed point, of integer digits ip and fraction digits fp: NaN
\* when there is no digit; at most three fraction digits are kept (Scale)
DecimalValue(ip, fp) ==
    IF ip = <<>> /\ fp = <<>> THEN NaN
    ELSE Num(DigitsValue(ip) * Scale + DigitsValue(SubSeq(fp \o <<"0", "0", "0">>, 1, 3)))

\* the unsigned decimal at the head of u, whose integer digits are ip
UnsignedDecimal(u, ip) == DecimalValue(ip, FractionDigits(SubSeq(u, Len(ip) + 1, Len(u))))

\* x, negated when neg
Signed(neg, x) == IF x.nan \/ ~neg THEN x ELSE Num(0 - x.val)

\* parseFloat of a string without leading spaces
ParseFloatTrimmed(t) ==
    Signed(IsNegative(t), UnsignedDecimal(Unsigned(t), DigitPrefix(Unsigned(t))))

\* parseFloat of a string of the form [spaces][-]digits[.digits][anything]:
\* NaN when no digit follows the optional sign; the value is in fixed point
ParseFloat(s) == ParseFloatTrimmed(TrimLeft(s))

\* Number -> String of a non-negative integer (localStorage.setItem coerces)
RECURSIVE NumberToString(_)
NumberToString(n) ==
    IF n < 10 THEN <<DigitChars[n + 1]>>
    ELSE NumberToString(n \div 10) \o <<DigitChars[(n % 10) + 1]>>

\* the integer written by the digits ip: NaN when there is none
IntegerValue(ip) == IF ip = <<>> THEN NaN ELSE Num(DigitsValue(ip))

\* parseInt of a string without leading spaces
ParseIntTrimmed(t) == Signed(IsNegative(t), IntegerValue(DigitPrefix(Unsigned(t))))

\* parseInt of a string of the form [spaces][-]digits[anything], as an
\* integer (not fixed point); NaN when there is no digit
ParseInt(s) == ParseIntTrimmed(TrimLeft(s))

\* JavaScript truthiness of a number: neither NaN nor 0
Truthy(x) == ~x.nan /\ x.val # 0

(* --------------------------- input alphabets -------------------------- *)

\* what the user can type into the item form (name, quantity, price)
NameInputs == {<<"W">>, <<" ">>}
QuantityInputs == {<<"2">>}
PriceInputs == {<<"1", "0">>}
\* what the user can type into the client name and tax rate fields
ClientNameInputs == {<<>>, <<"B">>}
TaxRateInputs == {<<"1", "3">>, <<"5", "0">>}
\* the options of the currency select
CurrencyInputs == {"USD", "EUR"}
\* what the tax rate field and the currency select hold when the page loads
DefaultTaxRateField == <<"1", "3">>
DefaultCurrency == "USD"

\* a wider item form, as <<name, quantity, price>>: a name to trim and a
\* price with a fraction; a zero quantity; a negative price; a blank name with
\* a quantity that is not a number and an empty price
FormInputs ==
    {<<<<"W">>, <<"2">>, <<"1", "0">>>>,
     <<<<" ", "W", " ">>, <<"3">>, <<"2", ".", "5">>>>,
     <<<<"W">>, <<"0">>, <<"1", "0">>>>,
     <<<<"W">>, <<"2">>, <<"-", "1">>>>,
     <<<<" ">>, <<"x">>, <<>>>>}
\* a wider tax rate field: below, at and above the limits, empty, not a number
FormTaxRateInputs ==
    {<<"1", "3">>, <<"5", "0">>, <<"0">>, <<"-", "5">>, <<"1", "5", "0">>, <<>>, <<"x">>}
\* a currency select with the three configured codes and one without a rate
FormCurrencyInputs == {"USD", "EUR", "BOB", "GBP"}

(* ----------------------------- script.js ------------------------------ *)

\* var exchangeRates = { USD: 1, EUR: 0.92, BOB: 6.91 }, in fixed point
exchangeRates == [USD |-> Scale, EUR |-> (92 * Scale) \div 100, BOB |-> (691 * Scale) \div 100]

\* product of two fixed-point numbers
Mul(a, b) == (a * b) \div Scale

\* 'General Client', the client name used when the field is empty
GeneralClient == <<"G", "e", "n", "e", "r", "a", "l", " ", "C", "l", "i", "e", "n", "t">>

\* document.getElementById('clientName').value || 'General Client'
ClientNameOrDefault(field) == IF field = <<>> THEN GeneralClient ELSE field

\* the properties JSON.stringify leaves out: those whose value is undefined
OptionalFields == {"hash", "timestamp"}

\* JSON.stringify of an object: properties with an undefined value are dropped
StringifyObject(r) ==
    LET kept == {k \in DOMAIN r : ~(k \in OptionalFields /\ r[k] = Undefined)}
    IN  [k \in kept |-> r[k]]

\* JSON.stringify of an array of objects
JSONStringify(arr) == [json |-> [i \in 1..Len(arr) |-> StringifyObject(arr[i])]]

\* JSON.parse of what JSONStringify wrote
JSONParse(text) == text.json

\* whether JSON.parse accepts the text: it throws a SyntaxError otherwise
IsJSON(text) == "json" \in DOMAIN text

\* a JSON text cut short, which JSON.parse does not accept
Truncated(text) == [truncated |-> text.json]

\* obj[key] of a parsed or built object: undefined when the property is absent
Get(obj, key) == IF key \in DOMAIN obj THEN obj[key] ELSE Undefined

\* generateHash: SHA-256 of JSON.stringify(message), taken as collision free
generateHash(message) == [sha256 |-> StringifyObject(message)]

\* generateBlockchainData hashing the items as they are, ids included
BlockItemsWithIds(its) == its

\* the {name, quantity, price} objects generateBlockchainData hashes
BlockItems(its) ==
    [i \in 1..Len(its) |->
        [name |-> its[i].name, quantity |-> its[i].quantity, price |-> its[i].price]]

\* new Date().toISOString() at clock value t
ISOString(t) == [iso |-> t]

\* generateBlockchainData taking the returned timestamp a millisecond after
\* the one it serialized
BlockStampedLater(blockData, timestamp) ==
    [hash      |-> generateHash(blockData),
     timestamp |-> ISOString(timestamp.iso + 1),
     data      |-> blockData]

\* the object the promise of generateBlockchainData resolves to
Block(blockData, timestamp) ==
    [hash |-> generateHash(blockData), timestamp |-> timestamp, data |-> blockData]

\* generateBlockchainData(invoiceData) called at clock value t: the block the
\* promise resolves to
generateBlockchainData(invoiceData, t) ==
    Block([invoiceNumber |-> invoiceData.invoiceNumber,
           clientName    |-> invoiceData.clientName,
           total         |-> invoiceData.total,
           timestamp     |-> ISOString(t),
           items         |-> BlockItems(invoiceData.items)],
          ISOString(t))

\* !x || x <= 0 of validateItem
NotPositive(x) == ~Truthy(x) \/ x.val <= 0

\* validateItem stopping at the first failing field
validateItemFirstOnly(nameIn, quantityIn, priceIn) ==
    IF Trim(nameIn) = <<>> THEN {"name"}
    ELSE IF NotPositive(ParseFloat(quantityIn)) THEN {"quantity"}
    ELSE IF NotPositive(ParseFloat(priceIn)) THEN {"price"}
    ELSE {}

\* validateItem: the set of fields that get an error message
validateItem(nameIn, quantityIn, priceIn) ==
    (IF Trim(nameIn) = <<>> THEN {"name"} ELSE {})
    \cup (IF NotPositive(ParseFloat(quantityIn)) THEN {"quantity"} ELSE {})
    \cup (IF NotPositive(ParseFloat(priceIn)) THEN {"price"} ELSE {})

\* parseFloat(taxRateInput) || 13
OrDefaultTaxRate(parsed) == IF Truthy(parsed) THEN parsed.val ELSE DefaultTaxRate * Scale

\* if (taxRate < 0) taxRate = 0
ClampLow(taxRate) == IF taxRate < 0 THEN 0 ELSE taxRate

\* if (taxRate > 100) taxRate = 100
ClampHigh(taxRate) == IF taxRate > 100 * Scale THEN 100 * Scale ELSE taxRate

\* getTaxRate: the rate as a fraction (fixed point)
getTaxRate(taxRateInput) ==
    ClampHigh(ClampLow(OrDefaultTaxRate(ParseFloat(taxRateInput)))) \div 100

\* items.reduce(sum + quantity * price, 0)
RECURSIVE Subtotal(_)
Subtotal(its) ==
    IF its = <<>> THEN 0
    ELSE Subtotal(SubSeq(its, 1, Len(its) - 1))
         + Mul(its[Len(its)].quantity, its[Len(its)].price)

\* total * exchangeRates[currency]: NaN for a currency without a rate
Converted(total, cur) ==
    IF cur \in DOMAIN exchangeRates THEN Num(Mul(total, exchangeRates[cur])) ELSE NaN

\* calculateTotals converting the subtotal in place of the total
TotalsOfSubtotal(subtotal, taxRate, tax, cur) ==
    [subtotal       |-> subtotal,
     tax            |-> tax,
     total          |-> subtotal + tax,
     convertedTotal |-> Converted(subtotal, cur),
     currency       |-> cur,
     taxRate        |-> taxRate * 100]

\* the object calculateTotals returns, from subtotal, tax rate and tax
Totals(subtotal, taxRate, tax, cur) ==
    [subtotal       |-> subtotal,
     tax            |-> tax,
     total          |-> subtotal + tax,
     convertedTotal |-> Converted(subtotal + tax, cur),
     currency       |-> cur,
     taxRate        |-> taxRate * 100]

\* calculateTotals once subtotal and tax rate are known
TaxedTotals(subtotal, taxRate, cur) == Totals(subtotal, taxRate, Mul(subtotal, taxRate), cur)

\* calculateTotals
calculateTotals(its, taxRateInput, cur) ==
    TaxedTotals(Subtotal(its), getTaxRate(taxRateInput), cur)

\* if (invoiceHistory.length > 50) invoiceHistory = invoiceHistory.slice(0, 50)
CutToMax(history) ==
    IF Len(history) > MaxHistory THEN SubSeq(history, 1, MaxHistory) ELSE history

\* saveToHistory without the cut to 50
saveToHistoryNoCut(history, invoiceData) == <<invoiceData>> \o history

\* saveToHistory with push in place of unshift
saveToHistoryPush(history, invoiceData) == CutToMax(history \o <<invoiceData>>)

\* saveToHistory: the ledger after unshift and the cut to 50
saveToHistory(history, invoiceData) == CutToMax(<<invoiceData>> \o history)

\* the position (from 0) at which splice(index, ...) starts on an array of
\* length len: a negative index counts from the end
SpliceStart(len, index) ==
    IF index < 0 THEN (IF len + index < 0 THEN 0 ELSE len + index) ELSE Min(index, len)

\* arr without the element at position start (from 0), if there is one
WithoutPosition(arr, start) ==
    IF start >= Len(arr) THEN arr
    ELSE SubSeq(arr, 1, start) \o SubSeq(arr, start + 2, Len(arr))

\* splice(index) without the count: everything from index on is removed
SpliceToEnd(arr, index) == SubSeq(arr, 1, SpliceStart(Len(arr), index))

\* Array.prototype.splice(index, 1) on an array: an index past the end
\* removes nothing
Splice1(arr, index) == WithoutPosition(arr, SpliceStart(Len(arr), index))

(* ------------------------------- state -------------------------------- *)

VARIABLES
    items,                   \* var items: the line items being built
    invoiceNumber,           \* var invoiceNumber
    invoiceHistory,          \* var invoiceHistory, most recent first
    itemsRef,                \* k > 0: items is the same array object as
                             \* invoiceHistory[k].items; 0: an array of its own
    currentInvoiceHash,      \* window.currentInvoiceHash
    currentInvoiceTimestamp, \* window.currentInvoiceTimestamp
    pending,                 \* blocks of the digest promises not yet resolved,
                             \* oldest first
    clientName,              \* value of the clientName field
    taxRate,                 \* value of the taxRate field
    currency,                \* value of the currency select
    localStorage,            \* key -> stored string; an absent key is not in
                             \* the domain
    now,                     \* the clock, in milliseconds
    cryptoAvailable,         \* whether crypto.subtle exists in this browser
    errors,                  \* the item form fields that show a validation error
                             \* (nameError, quantityError, priceError)
    nOps                     \* events so far

vars == <<items, invoiceNumber, invoiceHistory, itemsRef, currentInvoiceHash,
          currentInvoiceTimestamp, pending, clientName, taxRate, currency,
          localStorage, now, cryptoAvailable, errors, nOps>>

\* localStorage.setItem(key, value)
SetItem(store, key, value) ==
    [k \in DOMAIN store \cup {key} |-> IF k = key THEN value ELSE store[k]]

\* the invoiceData object updateDisplay passes to generateBlockchainData
InvoiceData(its, number, nameField, taxRateInput, cur) ==
    [invoiceNumber |-> number,
     clientName    |-> ClientNameOrDefault(nameField),
     total         |-> calculateTotals(its, taxRateInput, cur).total,
     items         |-> its]

\* updateDisplay: the promises in flight after the call.  With no items it
\* returns before hashing; without crypto.subtle generateHash throws before a
\* promise exists.
updateDisplay(its, number, nameField, taxRateInput, cur, inFlight, t) ==
    IF Len(its) = 0 \/ ~cryptoAvailable THEN inFlight
    ELSE Append(inFlight,
                generateBlockchainData(InvoiceData(its, number, nameField, taxRateInput, cur), t))

\* one more event, within the bound
CountOp == nOps < MaxOps /\ nOps' = nOps + 1

(* ------------------------- earlier sessions --------------------------- *)

\* the object generatePDF passes to saveToHistory
RecordOf(number, client, totals, hash, timestamp, itemsCopy) ==
    [invoiceNumber  |-> number,
     clientName     |-> client,
     total          |-> totals.total,
     currency       |-> totals.currency,
     convertedTotal |-> totals.convertedTotal,
     hash           |-> hash,
     timestamp      |-> timestamp,
     items          |-> itemsCopy]

\* the one item of the invoices of earlier sessions
PriorItems == <<[id |-> 0, name |-> <<"W">>, quantity |-> 2 * Scale, price |-> 10 * Scale]>>

\* the record of an earlier session, given its totals and its block
PriorRecordOf(n, totals, block) ==
    RecordOf(n, GeneralClient, totals, block.hash, block.timestamp, PriorItems)

\* the record of an earlier session, given its totals, hashed at clock value 0
PriorHashed(n, totals) ==
    PriorRecordOf(n, totals,
                  generateBlockchainData([invoiceNumber |-> n, clientName |-> GeneralClient,
                                          total |-> totals.total, items |-> PriorItems], 0))

\* the record an earlier session wrote for invoice number n: one item,
\* default client, tax 13, USD
PriorRecord(n) == PriorHashed(n, calculateTotals(PriorItems, DefaultTaxRateField, DefaultCurrency))

\* the ledger after k invoices 1001 .. 1000+k of earlier sessions
PriorLedger(k) == [i \in 1..k |-> PriorRecord(InitialInvoiceNumber + k - i)]

\* what localStorage holds after k invoices of earlier sessions
PriorStorage(k) ==
    IF k = 0 THEN <<>>
    ELSE [invoiceNumber  |-> NumberToString(InitialInvoiceNumber + k),
          invoiceHistory |-> JSONStringify(PriorLedger(k))]


\* localStorage after one invoice of an earlier session, with the history
\* text damaged since
CorruptStorage ==
    [invoiceNumber  |-> NumberToString(InitialInvoiceNumber + 1),
     invoiceHistory |-> Truncated(JSONStringify(PriorLedger(1)))]

(* --------------------------- initialization --------------------------- *)

\* the DOMContentLoaded handler: invoiceNumber after the load
LoadInvoiceNumber(store) ==
    IF "invoiceNumber" \in DOMAIN store /\ store["invoiceNumber"] # <<>>
    THEN ParseInt(store["invoiceNumber"]).val
    ELSE InitialInvoiceNumber

\* the DOMContentLoaded handler: whether JSON.parse(savedHistory) throws; no
\* try encloses it, so the SyntaxError leaves the handler
LoadThrows(store) ==
    "invoiceHistory" \in DOMAIN store /\ ~IsJSON(store["invoiceHistory"])

\* the DOMContentLoaded handler: invoiceHistory after the load; when
\* JSON.parse throws the assignment does not happen and the global keeps its
\* initial []
LoadHistory(store) ==
    IF "invoiceHistory" \in DOMAIN store /\ ~LoadThrows(store)
    THEN JSONParse(store["invoiceHistory"])
    ELSE <<>>

\* the script's globals and the page after (re)loading it over store
PageLoaded(store) ==
    /\ items = <<>>
    /\ itemsRef = 0
    /\ invoiceNumber = LoadInvoiceNumber(store)
    /\ invoiceHistory = LoadHistory(store)
    /\ currentInvoiceHash = Undefined
    /\ currentInvoiceTimestamp = Undefined
    /\ pending = <<>>
    /\ clientName = <<>>
    /\ taxRate = DefaultTaxRateField
    /\ currency = DefaultCurrency
    /\ errors = {}

\* first session of a browser: nothing is stored
Init ==
    /\ localStorage = PriorStorage(0)
    /\ PageLoaded(localStorage)
    /\ now = 1
    /\ cryptoAvailable \in BOOLEAN
    /\ nOps = 0

\* a session of a browser in which MaxHistory - 1 invoices were finalized before
InitLedger ==
    /\ localStorage = PriorStorage(MaxHistory - 1)
    /\ PageLoaded(localStorage)
    /\ now = 1
    /\ cryptoAvailable \in BOOLEAN
    /\ nOps = 0

\* a session over nothing stored or over a damaged history text, on a page
\* without crypto.subtle (served over plain http): no hash is ever started
InitForm ==
    /\ localStorage \in {PriorStorage(0), CorruptStorage}
    /\ PageLoaded(localStorage)
    /\ now = 1
    /\ cryptoAvailable = FALSE
    /\ nOps = 0

(* ------------------------------ actions ------------------------------- *)

\* the item addItem builds from valid form input at clock value t
NewItem(nameIn, quantityIn, priceIn, t) ==
    [id       |-> t,
     name     |-> Trim(nameIn),
     quantity |-> ParseFloat(quantityIn).val,
     price    |-> ParseFloat(priceIn).val]

\* addItem in place: items.push(item) also changes the history record whose
\* items array is the same object
PushShared(history, ref, item) ==
    IF ref = 0 THEN history
    ELSE [history EXCEPT ![ref] = [@ EXCEPT !.items = Append(@, item)]]

\* addItem once the form is valid: push, then updateDisplay
AddValidItem(item) ==
    /\ CountOp
    /\ items' = Append(items, item)
    /\ invoiceHistory' = PushShared(invoiceHistory, itemsRef, item)
    /\ pending' = updateDisplay(items', invoiceNumber, clientName, taxRate, currency,
                                pending, now)
    /\ UNCHANGED <<invoiceNumber, itemsRef, currentInvoiceHash, currentInvoiceTimestamp,
                   clientName, taxRate, currency, localStorage, now, cryptoAvailable>>

\* addItem when validateItem returned false: it returns at once
RejectedItem ==
    UNCHANGED <<items, invoiceNumber, invoiceHistory, itemsRef, currentInvoiceHash,
                currentInvoiceTimestamp, pending, clientName, taxRate, currency,
                localStorage, now, cryptoAvailable, nOps>>

\* addItem with the form holding nameIn, quantityIn, priceIn: validateItem
\* clears the three error fields and sets those of the failing inputs
AddItem(nameIn, quantityIn, priceIn) ==
    /\ errors' = validateItem(nameIn, quantityIn, priceIn)
    /\ IF validateItem(nameIn, quantityIn, priceIn) # {}
       THEN RejectedItem
       ELSE AddValidItem(NewItem(nameIn, quantityIn, priceIn, now))

\* items.filter(item.id !== id)
FilterItems(its, id) == SelectSeq(its, LAMBDA it : it.id # id)

\* removeItem(id): filter builds a new array
RemoveItem(id) ==
    /\ CountOp
    /\ items' = FilterItems(items, id)
    /\ itemsRef' = 0
    /\ pending' = updateDisplay(items', invoiceNumber, clientName, taxRate, currency,
                                pending, now)
    /\ UNCHANGED <<invoiceNumber, invoiceHistory, currentInvoiceHash,
                   currentInvoiceTimestamp, clientName, taxRate, currency, localStorage,
                   now, cryptoAvailable, errors>>

\* the user edits the client name field: no listener is attached to it
SetClientName(v) ==
    /\ CountOp
    /\ clientName # v
    /\ clientName' = v
    /\ UNCHANGED <<items, invoiceNumber, invoiceHistory, itemsRef, currentInvoiceHash,
                   currentInvoiceTimestamp, pending, taxRate, currency, localStorage,
                   now, cryptoAvailable, errors>>

\* 'input' on the tax rate field: the listener is updateDisplay
SetTaxRate(v) ==
    /\ CountOp
    /\ taxRate # v
    /\ taxRate' = v
    /\ pending' = updateDisplay(items, invoiceNumber, clientName, v, currency, pending, now)
    /\ UNCHANGED <<items, invoiceNumber, invoiceHistory, itemsRef, currentInvoiceHash,
                   currentInvoiceTimestamp, clientName, currency, localStorage, now,
                   cryptoAvailable, errors>>

\* 'change' on the currency select: the listener is updateDisplay
SetCurrency(c) ==
    /\ CountOp
    /\ currency # c
    /\ currency' = c
    /\ pending' = updateDisplay(items, invoiceNumber, clientName, taxRate, c, pending, now)
    /\ UNCHANGED <<items, invoiceNumber, invoiceHistory, itemsRef, currentInvoiceHash,
                   currentInvoiceTimestamp, clientName, taxRate, localStorage, now,
                   cryptoAvailable, errors>>

\* seq without its i-th element
RemoveAt(seq, i) == SubSeq(seq, 1, i - 1) \o SubSeq(seq, i + 1, Len(seq))

\* the digest of the i-th promise in flight resolves: the then-callback of
\* updateDisplay stores the hash and the timestamp of its block
ResolveHash(i) ==
    /\ CountOp
    /\ i \in 1..Len(pending)
    /\ currentInvoiceHash' = pending[i].hash
    /\ currentInvoiceTimestamp' = pending[i].timestamp
    /\ pending' = RemoveAt(pending, i)
    /\ UNCHANGED <<items, invoiceNumber, invoiceHistory, itemsRef, clientName, taxRate,
                   currency, localStorage, now, cryptoAvailable, errors>>

\* the record generatePDF passes to saveToHistory
HistoryRecord(its, number, nameField, taxRateInput, cur, hash, timestamp) ==
    RecordOf(number, ClientNameOrDefault(nameField), calculateTotals(its, taxRateInput, cur),
             hash, timestamp, JSONParse(JSONStringify(its)))

\* generatePDF without the increment
NextInvoiceNumberStuck(number) == number

\* invoiceNumber++ of generatePDF
NextInvoiceNumber(number) == number + 1

\* items = [] of generatePDF
ClearedItems(its) == <<>>

\* generatePDF
GeneratePDF ==
    /\ CountOp
    /\ invoiceHistory' =
           saveToHistory(invoiceHistory,
                         HistoryRecord(items, invoiceNumber, clientName, taxRate, currency,
                                       currentInvoiceHash, currentInvoiceTimestamp))
    /\ invoiceNumber' = NextInvoiceNumber(invoiceNumber)
    /\ localStorage' =
           SetItem(SetItem(localStorage, "invoiceHistory", JSONStringify(invoiceHistory')),
                   "invoiceNumber", NumberToString(invoiceNumber'))
    /\ items' = ClearedItems(items)
    /\ itemsRef' = 0
    /\ pending' = updateDisplay(items', invoiceNumber', clientName, taxRate, currency,
                                pending, now)
    /\ UNCHANGED <<currentInvoiceHash, currentInvoiceTimestamp, clientName, taxRate,
                   currency, now, cryptoAvailable, errors>>

\* the indexes passed to deleteInvoice and regenerateInvoice
IndexInputs == {-1, 0, 1, Len(invoiceHistory)}

\* where the array shared with items is once the record at position removed
\* (from 0) has left a ledger of length len: the records behind it move up
RefAfterRemoval(ref, removed, len) ==
    IF ref = 0 \/ removed >= len THEN ref
    ELSE IF ref = removed + 1 THEN 0
    ELSE IF ref > removed + 1 THEN ref - 1
    ELSE ref

\* where the array shared with items is after splice(index, 1)
RefAfterSplice(history, ref, index) ==
    RefAfterRemoval(ref, SpliceStart(Len(history), index), Len(history))

\* deleteInvoice(index); confirmed is the answer to confirm()
DeleteInvoice(index, confirmed) ==
    IF ~confirmed
    THEN UNCHANGED vars
    ELSE /\ CountOp
         /\ invoiceHistory' = Splice1(invoiceHistory, index)
         /\ itemsRef' = RefAfterSplice(invoiceHistory, itemsRef, index)
         /\ localStorage' = SetItem(localStorage, "invoiceHistory",
                                    JSONStringify(invoiceHistory'))
         /\ UNCHANGED <<items, invoiceNumber, currentInvoiceHash,
                        currentInvoiceTimestamp, pending, clientName, taxRate, currency,
                        now, cryptoAvailable, errors>>

\* whether deleteInvoice(index) throws: splice takes any integer, and no
\* statement of deleteInvoice looks at the index
deleteInvoiceThrows(history, index) == FALSE

\* whether invoiceHistory[index] is undefined: the index is not one of the array
UndefinedAt(history, index) == index < 0 \/ index >= Len(history)

\* whether viewInvoiceDetails(index) throws: invoice.items.map of undefined is
\* a TypeError
viewInvoiceDetailsThrows(history, index) == UndefinedAt(history, index)

\* whether regenerateInvoice(index) throws: invoice.items of undefined is a
\* TypeError
regenerateInvoiceThrows(history, index) == UndefinedAt(history, index)

\* invoiceHistory[index] one place further
HistoryAtNext(history, index) == history[Min(index + 2, Len(history))]

\* invoiceHistory[index] of an index of the array (from 0)
HistoryAt(history, index) == history[index + 1]

\* regenerateInvoice(index): out of range, invoice is undefined and
\* invoice.items throws before anything is assigned
RegenerateInvoice(index) ==
    IF regenerateInvoiceThrows(invoiceHistory, index)
    THEN UNCHANGED vars
    ELSE LET invoice == HistoryAt(invoiceHistory, index)
         IN  /\ CountOp
             /\ items' = invoice.items
             /\ itemsRef' = index + 1
             /\ invoiceNumber' = invoice.invoiceNumber
             /\ clientName' = invoice.clientName
             /\ pending' = updateDisplay(items', invoiceNumber', clientName', taxRate,
                                         currency, pending, now)
             /\ UNCHANGED <<invoiceHistory, currentInvoiceHash, currentInvoiceTimestamp,
                            taxRate, currency, localStorage, now, cryptoAvailable, errors>>

\* the page is reloaded: the globals start over and the DOMContentLoaded
\* handler reads localStorage; promises in flight are gone
Reload ==
    /\ CountOp
    /\ items' = <<>>
    /\ itemsRef' = 0
    /\ invoiceNumber' = LoadInvoiceNumber(localStorage)
    /\ invoiceHistory' = LoadHistory(localStorage)
    /\ currentInvoiceHash' = Undefined
    /\ currentInvoiceTimestamp' = Undefined
    /\ pending' = <<>>
    /\ clientName' = <<>>
    /\ taxRate' = DefaultTaxRateField
    /\ currency' = DefaultCurrency
    /\ errors' = {}
    /\ UNCHANGED <<localStorage, now, cryptoAvailable>>

\* a millisecond passes
Tick ==
    /\ CountOp
    /\ now' = now + 1
    /\ UNCHANGED <<items, invoiceNumber, invoiceHistory, itemsRef, currentInvoiceHash,
                   currentInvoiceTimestamp, pending, clientName, taxRate, currency,
                   localStorage, cryptoAvailable, errors>>

AddItemStep == \E n \in NameInputs, q \in QuantityInputs, p \in PriceInputs : AddItem(n, q, p)
\* the ids removeItem is called with: those on screen and one that is not
RemoveIds == {items[i].id : i \in 1..Len(items)} \cup {-1}

RemoveItemStep == \E id \in RemoveIds : RemoveItem(id)
SetClientNameStep == \E v \in ClientNameInputs : SetClientName(v)
SetTaxRateStep == \E v \in TaxRateInputs : SetTaxRate(v)
SetCurrencyStep == \E c \in CurrencyInputs : SetCurrency(c)
ResolveHashStep == \E i \in 1..Len(pending) : ResolveHash(i)
DeleteInvoiceStep ==
    \E confirmed \in BOOLEAN :
        \E index \in (IF confirmed THEN IndexInputs ELSE {0}) : DeleteInvoice(index, confirmed)
RegenerateInvoiceStep == \E index \in IndexInputs : RegenerateInvoice(index)

\* the same events over the wider form
AddItemFormStep == \E f \in FormInputs : AddItem(f[1], f[2], f[3])
SetTaxRateFormStep == \E v \in FormTaxRateInputs : SetTaxRate(v)
SetCurrencyFormStep == \E c \in FormCurrencyInputs : SetCurrency(c)
\* addItem with a form that passes validateItem
AddValidItemStep ==
    \E n \in {<<"W">>}, q \in QuantityInputs, p \in PriceInputs : AddItem(n, q, p)

Next ==
    \/ AddItemStep
    \/ RemoveItemStep
    \/ SetClientNameStep
    \/ SetTaxRateStep
    \/ SetCurrencyStep
    \/ ResolveHashStep
    \/ GeneratePDF
    \/ DeleteInvoiceStep
    \/ RegenerateInvoiceStep
    \/ Reload
    \/ Tick

Spec == Init /\ [][Next]_vars

\* the events that read or write the history ledger, on a ledger near its cap
NextLedger ==
    \/ AddValidItemStep
    \/ ResolveHashStep
    \/ GeneratePDF
    \/ DeleteInvoiceStep
    \/ RegenerateInvoiceStep
    \/ Reload

SpecLedger == InitLedger /\ [][NextLedger]_vars

\* the events of the item form, the tax rate field and the currency select,
\* over the wider form
NextForm ==
    \/ AddItemFormStep
    \/ RemoveItemStep
    \/ SetTaxRateFormStep
    \/ SetCurrencyFormStep
    \/ Reload

SpecForm == InitForm /\ [][NextForm]_vars

(* ------------------------------ claims -------------------------------- *)

\* the invoice numbers of the ledger are pairwise different
DistinctInvoiceNumbers(history) ==
    \A i, j \in 1..Len(history) :
        i # j => history[i].invoiceNumber # history[j].invoiceNumber

\* C1: the invoice counter never decreases, goes up by exactly one in a
\* finalize (generatePDF) and in no other step, and a finalize never gives
\* the new record a number that a record of the ledger already carries.
C1_CounterMonotonic ==
    [][/\ invoiceNumber' >= invoiceNumber
       /\ GeneratePDF => invoiceNumber' = invoiceNumber + 1
       /\ ~GeneratePDF => invoiceNumber' = invoiceNumber
       /\ (GeneratePDF /\ DistinctInvoiceNumbers(invoiceHistory))
             => DistinctInvoiceNumbers(invoiceHistory')]_vars

\* C2: a finalize (generatePDF) of an invoice with items for which no
\* fingerprint is available (window.currentInvoiceHash was never set, because
\* hashing is unavailable or has not resolved) leaves the items, the counter
\* and the length of the ledger unchanged.
C2_FinalizeAllOrNothing ==
    [][(GeneratePDF /\ items # <<>> /\ currentInvoiceHash = Undefined)
         => /\ items' = items
            /\ invoiceNumber' = invoiceNumber
            /\ Len(invoiceHistory') = Len(invoiceHistory)]_vars

\* a hash computation in flight was started by updateDisplay for the invoice
\* as it is now: same number, client name, total and items
HashInFlightForCurrentInvoice ==
    \E i \in 1..Len(pending) :
        /\ pending[i].data.invoiceNumber = invoiceNumber
        /\ pending[i].data.clientName = ClientNameOrDefault(clientName)
        /\ pending[i].data.total = calculateTotals(items, taxRate, currency).total
        /\ pending[i].data.items = BlockItems(items)

\* C3: no finalize (generatePDF: history append, counter increment, items
\* cleared) takes place while the hash computation started for the current
\* invoice state is still unresolved.
C3_FinalizeWaitsForHash ==
    [][GeneratePDF => ~HashInFlightForCurrentInvoice]_vars

\* the clock values a behaviour can reach, and 0 for earlier sessions
ClockValues == 0..(MaxOps + 1)

\* the hash generateBlockchainData computes at clock value t over the
\* snapshot made of a record's invoiceNumber, clientName, total and items
HashOfRecordAt(r, t) ==
    generateBlockchainData([invoiceNumber |-> r.invoiceNumber,
                            clientName    |-> r.clientName,
                            total         |-> r.total,
                            items         |-> r.items], t).hash

\* C4: every record of the ledger that has a fingerprint carries the hash
\* computed (at some time) over the snapshot of that record's own
\* invoiceNumber, clientName, total and items.
C4_FingerprintMatchesRecord ==
    \A i \in 1..Len(invoiceHistory) :
        Get(invoiceHistory[i], "hash") # Undefined
          => \E t \in ClockValues :
                 Get(invoiceHistory[i], "hash") = HashOfRecordAt(invoiceHistory[i], t)

\* C5: no two records of the ledger that have a fingerprint carry the same
\* fingerprint.
C5_UniqueFingerprints ==
    \A i, j \in 1..Len(invoiceHistory) :
        (i # j /\ Get(invoiceHistory[i], "hash") # Undefined)
          => Get(invoiceHistory[i], "hash") # Get(invoiceHistory[j], "hash")

\* C6: the ledger never holds more than 50 records, in memory or as persisted.
C6_HistoryBound ==
    /\ Len(invoiceHistory) <= MaxHistory
    /\ Len(LoadHistory(localStorage)) <= MaxHistory

\* C6 witness: two finalizes on a ledger of 49 records: the ledger is full
\* and its head is the 51st invoice
C6_Witness ==
    /\ nOps = 2
    /\ Len(invoiceHistory) = MaxHistory
    /\ invoiceHistory[1].invoiceNumber = InitialInvoiceNumber + MaxHistory

\* C7: a finalize puts the new record at the head, keeps the records that
\* were there in their order behind it, and drops only the last one, and only
\* when the ledger already held 50.
C7_AppendOrderAndEviction ==
    [][GeneratePDF =>
         /\ Len(invoiceHistory') = Min(Len(invoiceHistory) + 1, MaxHistory)
         /\ invoiceHistory'[1].invoiceNumber = invoiceNumber
         /\ \A i \in 2..Len(invoiceHistory') : invoiceHistory'[i] = invoiceHistory[i - 1]]_vars

\* C7 witness: after 51 appends (49 of earlier sessions, two now) the first
\* appended record, number 1001, is gone and number 1002 is the last
C7_Witness ==
    /\ nOps = 2
    /\ Len(invoiceHistory) = MaxHistory
    /\ invoiceHistory[MaxHistory].invoiceNumber = InitialInvoiceNumber + 1
    /\ invoiceHistory[1].invoiceNumber = InitialInvoiceNumber + MaxHistory

\* C8: add, remove and the clearing of the items by a finalize change the
\* items of no record the ledger holds.
C8_RecordsAreCopies ==
    [][/\ (AddItemStep \/ RemoveItemStep)
            => /\ Len(invoiceHistory') = Len(invoiceHistory)
               /\ \A i \in 1..Len(invoiceHistory) :
                      invoiceHistory'[i].items = invoiceHistory[i].items
       /\ GeneratePDF
            => \A i \in 2..Len(invoiceHistory') :
                   invoiceHistory'[i].items = invoiceHistory[i - 1].items]_vars

\* C9: a finalize with counter n and items L puts exactly one new record at
\* the head, with invoiceNumber n and items L, leaves the items empty and the
\* counter, in memory and as persisted, at n + 1.
C9_FinalizeEffect ==
    [][GeneratePDF =>
         /\ Len(invoiceHistory') = Min(Len(invoiceHistory) + 1, MaxHistory)
         /\ invoiceHistory'[1].invoiceNumber = invoiceNumber
         /\ invoiceHistory'[1].items = items
         /\ SubSeq(invoiceHistory', 2, Len(invoiceHistory'))
              = SubSeq(invoiceHistory, 1, Len(invoiceHistory') - 1)
         /\ items' = <<>>
         /\ invoiceNumber' = invoiceNumber + 1
         /\ LoadInvoiceNumber(localStorage') = invoiceNumber + 1]_vars

\* C9 witness: an invoice with items was finalized
C9_Witness ==
    /\ items = <<>>
    /\ Len(invoiceHistory) >= 1
    /\ invoiceHistory[1].items # <<>>
    /\ invoiceNumber = invoiceHistory[1].invoiceNumber + 1
    /\ LoadInvoiceNumber(localStorage) = invoiceNumber

\* C10: a confirmed deleteInvoice(index) with 0 <= index < length removes the
\* record at that index and no other, keeps the rest in order, and persists
\* the new ledger.
C10_DeleteValidIndex ==
    [][\A index \in 0..(Len(invoiceHistory) - 1) :
          DeleteInvoice(index, TRUE) =>
            /\ Len(invoiceHistory') = Len(invoiceHistory) - 1
            /\ \A i \in 1..index : invoiceHistory'[i] = invoiceHistory[i]
            /\ \A i \in (index + 1)..Len(invoiceHistory') :
                   invoiceHistory'[i] = invoiceHistory[i + 1]
            /\ Len(LoadHistory(localStorage')) = Len(invoiceHistory')
            /\ \A i \in 1..Len(invoiceHistory') :
                   LoadHistory(localStorage')[i] = StringifyObject(invoiceHistory'[i])]_vars

\* C10 witness: index 1 of a ledger of 49 records was deleted: the head is
\* still number 1049 and number 1047 follows it
C10_Witness ==
    /\ nOps = 1
    /\ Len(invoiceHistory) = MaxHistory - 2
    /\ invoiceHistory[1].invoiceNumber = InitialInvoiceNumber + MaxHistory - 2
    /\ invoiceHistory[2].invoiceNumber = InitialInvoiceNumber + MaxHistory - 4
    /\ LoadHistory(localStorage) = invoiceHistory

\* an index that is negative or not below the length of the ledger
OutOfBounds(index) == index < 0 \/ index >= Len(invoiceHistory)

\* C11: viewInvoiceDetails, regenerateInvoice and (confirmed) deleteInvoice
\* with an index that is negative or >= the length of the ledger end in an
\* error and leave the ledger, the items and the counter unchanged.
C11_OutOfBoundsIndex ==
    [][\A index \in IndexInputs :
          OutOfBounds(index) =>
            /\ viewInvoiceDetailsThrows(invoiceHistory, index)
            /\ RegenerateInvoice(index)
                 => /\ regenerateInvoiceThrows(invoiceHistory, index)
                    /\ invoiceHistory' = invoiceHistory
                    /\ items' = items
                    /\ invoiceNumber' = invoiceNumber
            /\ DeleteInvoice(index, TRUE)
                 => /\ deleteInvoiceThrows(invoiceHistory, index)
                    /\ invoiceHistory' = invoiceHistory
                    /\ items' = items
                    /\ invoiceNumber' = invoiceNumber]_vars

\* C11, the frame alone: a confirmed deleteInvoice with an index out of
\* bounds leaves the ledger as it is.
OutOfBoundsDeleteKeepsLedger ==
    [][\A index \in IndexInputs :
          (OutOfBounds(index) /\ DeleteInvoice(index, TRUE))
            => invoiceHistory' = invoiceHistory]_vars

\* C12: regenerateInvoice(index) with 0 <= index < length sets the items to
\* the items of the record at that index and the counter to that record's
\* invoiceNumber, and leaves the ledger (records, order, length) unchanged.
C12_RegenerateEffect ==
    [][\A index \in 0..(Len(invoiceHistory) - 1) :
          RegenerateInvoice(index) =>
            /\ items' = invoiceHistory[index + 1].items
            /\ invoiceNumber' = invoiceHistory[index + 1].invoiceNumber
            /\ invoiceHistory' = invoiceHistory]_vars

\* C12 witness: the older of two records, the one with items, was loaded back:
\* the items are its items and the counter is its number, below the number of
\* the newer record
C12_Witness ==
    /\ Len(invoiceHistory) = 2
    /\ itemsRef = 2
    /\ items # <<>>
    /\ items = invoiceHistory[2].items
    /\ invoiceNumber = invoiceHistory[2].invoiceNumber
    /\ invoiceNumber < invoiceHistory[1].invoiceNumber

\* a name that is blank after trimming
BlankName(nameIn) == \A i \in 1..Len(nameIn) : nameIn[i] = " "

\* an input that parses to a number strictly greater than 0
ParsesPositive(input) == ~ParseFloat(input).nan /\ ParseFloat(input).val > 0

\* the fields of a candidate that fail their rule
FailingFields(nameIn, quantityIn, priceIn) ==
    {f \in {"name", "quantity", "price"} :
        \/ f = "name" /\ BlankName(nameIn)
        \/ f = "quantity" /\ ~ParsesPositive(quantityIn)
        \/ f = "price" /\ ~ParsesPositive(priceIn)}

\* C13: addItem with a candidate whose name is blank after trimming, or whose
\* quantity or price does not parse to a number greater than 0, leaves the
\* items (and the ledger and the counter) unchanged and shows an error for
\* every failing field, not only the first.
C13_RejectedAdd ==
    [][\A f \in FormInputs :
          (AddItem(f[1], f[2], f[3]) /\ FailingFields(f[1], f[2], f[3]) # {})
            => /\ items' = items
               /\ invoiceHistory' = invoiceHistory
               /\ invoiceNumber' = invoiceNumber
               /\ errors' = FailingFields(f[1], f[2], f[3])]_vars

\* C13 witness: after one item was added, a candidate failing all three rules
\* was rejected: three errors are shown and the one item is still there
C13_Witness ==
    /\ nOps = 1
    /\ Len(items) = 1
    /\ errors = {"name", "quantity", "price"}

\* C14: the items being built have pairwise distinct ids.
C14_UniqueItemIds ==
    \A i, j \in 1..Len(items) : i # j => items[i].id # items[j].id

\* C15: removeItem(id) with an id no item has leaves the items unchanged; with
\* the id of an item it removes that one item and keeps the others in order;
\* the counter and the ledger are unchanged either way.
C15_Remove ==
    [][\A id \in RemoveIds :
          RemoveItem(id) =>
            /\ invoiceNumber' = invoiceNumber
            /\ invoiceHistory' = invoiceHistory
            /\ (\A k \in 1..Len(items) : items[k].id # id) => items' = items
            /\ \A k \in 1..Len(items) :
                   items[k].id = id => items' = RemoveAt(items, k)]_vars

\* x clamped into [lo, hi]
Clamped(x, lo, hi) == IF x < lo THEN lo ELSE IF x > hi THEN hi ELSE x

\* C16: the tax percentage used is the parsed input clamped into [0, 100]
\* (0 included), and 13 when the input is absent or not a number.
C16_TaxRateOnRead ==
    /\ ~ParseFloat(taxRate).nan
         => getTaxRate(taxRate) * 100 = Clamped(ParseFloat(taxRate).val, 0, 100 * Scale)
    /\ ParseFloat(taxRate).nan => getTaxRate(taxRate) * 100 = DefaultTaxRate * Scale

\* the sum of quantity * price over the items, from the first on
RECURSIVE SumOfLines(_)
SumOfLines(its) ==
    IF its = <<>> THEN 0
    ELSE (Head(its).quantity * Head(its).price) \div Scale + SumOfLines(Tail(its))

\* the items in the opposite order
Reversed(its) == [i \in 1..Len(its) |-> its[Len(its) + 1 - i]]

\* the configured rates, in thousandths
RateOf(cur) == CASE cur = "USD" -> 1000 [] cur = "EUR" -> 920 [] cur = "BOB" -> 6910

\* a fixed-point number rounded to 2 places, in hundredths
Round2(x) == (x + 5) \div 10

\* the relation of C17 on a Totals value t for items its and currency cur
TotalsRelation(t, its, cur) ==
    /\ t.subtotal = SumOfLines(its)
    /\ t.subtotal = SumOfLines(Reversed(its))
    /\ t.tax = (t.subtotal * (t.taxRate \div 100)) \div Scale
    /\ t.total = t.subtotal + t.tax
    /\ t.convertedTotal = Num((t.total * RateOf(cur)) \div Scale)

\* the example of C17 on a Totals value t: 2 x 10.00 at 13%
TotalsExample(t, cur) ==
    /\ t.subtotal = 20 * Scale
    /\ t.tax = 2600
    /\ t.total = 22600
    /\ cur = "USD" => Round2(t.convertedTotal.val) = 2260
    /\ cur = "EUR" => Round2(t.convertedTotal.val) = 2079

\* C17: for the items, the tax rate and a configured currency, calculateTotals
\* returns subtotal = sum of quantity * price (in any order), tax = subtotal *
\* percentage / 100, total = subtotal + tax, convertedTotal = total * rate;
\* one item 2 x 10.00 at 13% gives 20.00 / 2.60 / 22.60, converted 22.60 in
\* USD and 20.79 in EUR.
C17_TotalsRelation ==
    currency \in {"USD", "EUR", "BOB"} =>
        /\ TotalsRelation(calculateTotals(items, taxRate, currency), items, currency)
        /\ (/\ Len(items) = 1
            /\ items[1].quantity = 2 * Scale
            /\ items[1].price = 10 * Scale
            /\ taxRate = <<"1", "3">>)
             => TotalsExample(calculateTotals(items, taxRate, currency), currency)

\* C17 witness: one item 2 x 10.00 at 13% with the currency switched to EUR:
\* the converted total is 20.792
C17_Witness ==
    /\ Len(items) = 1
    /\ items[1].quantity = 2 * Scale
    /\ items[1].price = 10 * Scale
    /\ taxRate = <<"1", "3">>
    /\ currency = "EUR"
    /\ calculateTotals(items, taxRate, currency).total = 22600
    /\ calculateTotals(items, taxRate, currency).convertedTotal = Num(20792)

\* C18: with a currency that is not USD, EUR or BOB calculateTotals does not
\* return a Totals value.
C18_UnknownCurrency ==
    currency \notin {"USD", "EUR", "BOB"}
      => "convertedTotal" \notin DOMAIN calculateTotals(items, taxRate, currency)

\* C19: a persisted history that cannot be deserialized gives an empty ledger
\* at the start of the session and no error leaves the startup handler; an
\* absent history gives an empty ledger too.
C19_CorruptHistoryOnLoad ==
    /\ ("invoiceHistory" \in DOMAIN localStorage /\ ~IsJSON(localStorage["invoiceHistory"]))
         => /\ LoadHistory(localStorage) = <<>>
            /\ ~LoadThrows(localStorage)
    /\ "invoiceHistory" \notin DOMAIN localStorage => LoadHistory(localStorage) = <<>>

\* the items with every id moved by d
Reidentified(its, d) == [i \in 1..Len(its) |-> [its[i] EXCEPT !.id = @ + d]]

\* C20: two invoices with the same number, client name, total and the same
\* (name, quantity, price) items in the same order, but other item ids, give
\* the same block (data and hash) at the same timestamp.
C20_SnapshotIgnoresIds ==
    \A d \in 1..2 :
        generateBlockchainData(
            InvoiceData(Reidentified(items, d), invoiceNumber, clientName, taxRate, currency),
            now)
        = generateBlockchainData(
              InvoiceData(items, invoiceNumber, clientName, taxRate, currency), now)

\* C20 witness: the block updateDisplay has just put in flight for the items
\* is the block of the same items under other ids
C20_Witness ==
    /\ items # <<>>
    /\ pending # <<>>
    /\ pending[Len(pending)]
         = generateBlockchainData(
               InvoiceData(Reidentified(items, 1), invoiceNumber, clientName, taxRate,
                           currency), now)

\* the object whose serialization a hash is the digest of
HashedData(hash) == hash.sha256

\* C21: once every hash computation in flight has resolved, in whatever
\* order, window.currentInvoiceHash is the hash computed by the most recent
\* updateDisplay, that is, over the current items and counter.
C21_LatestHashWins ==
    (cryptoAvailable /\ items # <<>> /\ pending = <<>> /\ currentInvoiceHash # Undefined)
      => /\ HashedData(currentInvoiceHash).invoiceNumber = invoiceNumber
         /\ HashedData(currentInvoiceHash).items = BlockItems(items)

\* C22: between operations the history text in localStorage deserializes to
\* the ledger in memory (a property whose value is undefined counts as
\* absent), so that a reload restores the same ledger.
C22_PersistedMirrorsMemory ==
    /\ Len(LoadHistory(localStorage)) = Len(invoiceHistory)
    /\ \A i \in 1..Len(invoiceHistory) :
           LoadHistory(localStorage)[i] = StringifyObject(invoiceHistory[i])

\* C23: in every record of the ledger that has a fingerprint, the timestamp
\* is the one serialized into the data the fingerprint is the hash of.
C23_HashAndTimestampTogether ==
    \A i \in 1..Len(invoiceHistory) :
        Get(invoiceHistory[i], "hash") # Undefined
          => Get(invoiceHistory[i], "timestamp")
               = HashedData(invoiceHistory[i].hash).timestamp

\* C23 witness: a record finalized with two items while only the hash of the
\* first updateDisplay, over one item, had resolved: the fingerprint is the
\* older one and the timestamp is the one that went into it
C23_Witness ==
    /\ Len(invoiceHistory) = 1
    /\ Get(invoiceHistory[1], "hash") # Undefined
    /\ Len(invoiceHistory[1].items) = 2
    /\ Len(HashedData(invoiceHistory[1].hash).items) = 1
    /\ invoiceHistory[1].timestamp = HashedData(invoiceHistory[1].hash).timestamp

====
